---- MODULE Spec2Model ----
(***************************************************************************)
(* State-machine model of src/src/App.tsx: the App component (choice,      *)
(* noClicks, the Yes/No handlers and the derived button scales) and the    *)
(* EmojiFlowEverywhere component (the particle list, the removal timeouts  *)
(* and the spawn interval).                                                *)
(*                                                                         *)
(* Scales are integers in hundredths (1.72 is 172).  A particle id is the  *)
(* particle's creation index (the code's ids are `${Date.now()}-${random}` *)
(* strings, unique per particle); the handle of a particle's removal       *)
(* timeout is identified with that id, since spawn registers exactly one   *)
(* timeout per created particle.  Time is not measured: an interval tick   *)
(* or a pending timeout may fire whenever it is registered.                *)
(***************************************************************************)
EXTENDS Integers, Sequences, FiniteSets, TLC

VARIABLES
    choice,        \* App: useState<Choice>("none")
    noClicks,      \* App: useState(0)
    mounted,       \* an EmojiFlowEverywhere instance exists
    active,        \* its `active` prop (FALSE while not mounted)
    perTick,       \* its `perTick` prop
    maxParticles,  \* its `maxParticles` prop
    particles,     \* its `particles` state: sequence of particle ids, oldest first
    timeoutsRef,   \* timeoutsRef.current: sequence of timeout handles
    pending,       \* the browser's registered, not yet fired, timeouts
    interval,      \* the browser's spawn interval is registered
    nextId,        \* number of particles created so far
    removed,       \* history: for each id, the causes by which it left the list
    lastOp         \* history: the last operation that ran

vars == <<choice, noClicks, mounted, active, perTick, maxParticles, particles,
          timeoutsRef, pending, interval, nextId, removed, lastOp>>

appVars == <<choice, noClicks>>

loopVars == <<mounted, active, perTick, maxParticles, particles, timeoutsRef,
              pending, interval, nextId, removed>>

----
\* Bounds of the model.

\* particles created in one behaviour
MaxIds == 6

\* calls of onNo that increment in one behaviour
MaxClicks == 12

\* the harness draws perTick from 0..MaxPerTick
MaxPerTick == 2

\* the harness draws maxParticles from 0..MaxCap
MaxCap == 2

----
\* Program constants.

DefaultPerTick == 2

DefaultMaxParticles == 70

\* 0.12 per click, in hundredths
ScaleStep == 12

\* the No button is disabled at noScale <= 0.26
DisableAt == 26

----
\* Helpers.

Range(s) == {s[i] : i \in DOMAIN s}

Min2(a, b) == IF a <= b THEN a ELSE b

Max2(a, b) == IF a >= b THEN a ELSE b

\* clamp without the upper limit: Math.max(min, n)
clampNoMax(n, min, max) == Max2(min, n)

\* Math.max(min, Math.min(max, n))
clamp(n, min, max) == Max2(min, Min2(max, n))

\* Array.from({ length: k }, createParticle): k fresh particles
created(from, k) == [i \in 1..k |-> from + i]

\* Array.prototype.slice(start) for 0 <= start
slice(s, start) == SubSeq(s, start + 1, Len(s))

\* prev.filter((x) => x.id !== id)
filterOut(s, id) == SelectSeq(s, LAMBDA x : x # id)

\* capped without the cap: the updater returns next as it is
cappedNever(next, max) == next

\* capped keeping the oldest entries: next.slice(0, maxParticles)
cappedOldest(next, max) == IF Len(next) > max THEN SubSeq(next, 1, max) ELSE next

\* the state updater of spawn: append, then keep the newest maxParticles
capped(next, max) == IF Len(next) > max THEN slice(next, Len(next) - max) ELSE next

\* scheduled without the setTimeout call
scheduledNone(pend, batch) == pend

\* window.setTimeout for every created particle
scheduled(pend, batch) == pend \cup Range(batch)

\* cancelled without the clearTimeout calls: the handles are only forgotten
cancelledNone(pend, ref) == pend

\* timeoutsRef.current.forEach((t) => window.clearTimeout(t))
cancelled(pend, ref) == pend \ Range(ref)

\* history: the ids of S left the list by `cause`
Left(r, S, cause) == [i \in DOMAIN r |-> IF i \in S THEN Append(r[i], cause) ELSE r[i]]

----
\* EmojiFlowEverywhere.

\* spawn() as closed over the props k = perTick and max = maxParticles of the
\* render whose effect defined it.
spawnWith(prev, ref, pend, k, max) ==
    LET batch == created(nextId, k)
        next  == prev \o batch
        kept  == capped(next, max)
    IN  /\ nextId + k <= MaxIds
        /\ particles' = kept
        /\ timeoutsRef' = ref \o batch
        /\ pending' = scheduled(pend, batch)
        /\ nextId' = nextId + k
        /\ removed' = Left(removed, Range(next) \ Range(kept), "evicted")

\* spawn(): create perTick particles, append them under the cap, and register a
\* removal timeout for each one, pushing its handle on timeoutsRef.  The
\* arguments are the list, the handles and the registered timeouts it starts from.
spawn(prev, ref, pend) == spawnWith(prev, ref, pend, perTick, maxParticles)

\* effectActive without the first spawn() call: only the interval is set
effectActiveNoSpawn(prev, ref, pend) ==
    /\ particles' = prev
    /\ timeoutsRef' = ref
    /\ pending' = pend
    /\ interval' = TRUE
    /\ UNCHANGED <<nextId, removed>>

\* The effect body when active: spawn(); window.setInterval(spawn, rateMs)
effectActive(prev, ref, pend) ==
    /\ spawn(prev, ref, pend)
    /\ interval' = TRUE

\* effectInactive undoing one entry per run: it cancels and forgets only the
\* first tracked handle and drops only the oldest particle
effectInactiveOneAtATime(prev, ref, pend) ==
    /\ pending' = IF ref = <<>> THEN pend ELSE pend \ {Head(ref)}
    /\ timeoutsRef' = IF ref = <<>> THEN <<>> ELSE Tail(ref)
    /\ particles' = IF prev = <<>> THEN <<>> ELSE Tail(prev)
    /\ removed' = IF prev = <<>> THEN removed ELSE Left(removed, {Head(prev)}, "cleared")
    /\ interval' = FALSE
    /\ nextId' = nextId

\* The effect body when not active: clearAllTimeouts(); setParticles([])
effectInactive(prev, ref, pend) ==
    /\ pending' = cancelled(pend, ref)
    /\ timeoutsRef' = <<>>
    /\ particles' = <<>>
    /\ removed' = Left(removed, Range(prev), "cleared")
    /\ interval' = FALSE
    /\ nextId' = nextId

\* A parent renders <EmojiFlowEverywhere active={a} .../> for the first time:
\* useState([]), useRef([]), then the effect runs.
Mount(a) ==
    /\ ~mounted
    /\ mounted' = TRUE
    /\ active' = a
    /\ IF a THEN effectActive(<<>>, <<>>, pending)
            ELSE effectInactive(<<>>, <<>>, pending)
    /\ lastOp' = "Mount"
    /\ UNCHANGED <<appVars, perTick, maxParticles>>

\* The `active` prop goes from false to true: the inactive effect returned no
\* cleanup, and the effect runs again with active.
Activate ==
    /\ mounted /\ ~active
    /\ active' = TRUE
    /\ effectActive(particles, timeoutsRef, pending)
    /\ lastOp' = "Activate"
    /\ UNCHANGED <<appVars, mounted, perTick, maxParticles>>

\* The `active` prop goes from true to false: the cleanup of the active effect
\* (clearInterval; clearAllTimeouts), then the effect's inactive branch.
Deactivate ==
    /\ mounted /\ active
    /\ active' = FALSE
    /\ effectInactive(particles, <<>>, cancelled(pending, timeoutsRef))
    /\ lastOp' = "Deactivate"
    /\ UNCHANGED <<appVars, mounted, perTick, maxParticles>>

\* The parent stops rendering the component: the cleanup of an active effect
\* runs, and the component's state is discarded.
Unmount ==
    /\ mounted
    /\ mounted' = FALSE
    /\ active' = FALSE
    /\ interval' = FALSE
    /\ pending' = IF active THEN cancelled(pending, timeoutsRef) ELSE pending
    /\ timeoutsRef' = <<>>
    /\ particles' = <<>>
    /\ removed' = Left(removed, Range(particles), "cleared")
    /\ lastOp' = "Unmount"
    /\ UNCHANGED <<appVars, perTick, maxParticles, nextId>>

\* The interval fires: spawn()
Tick ==
    /\ interval
    /\ spawn(particles, timeoutsRef, pending)
    /\ lastOp' = "Tick"
    /\ UNCHANGED <<appVars, mounted, active, perTick, maxParticles, interval>>

\* The removal timeout of particle t fires:
\* setParticles((prev) => prev.filter((x) => x.id !== p.id)).  The handle stays
\* in timeoutsRef.  A state update of an unmounted component does nothing.
Expire(t) ==
    /\ t \in pending
    /\ pending' = pending \ {t}
    /\ particles' = IF mounted THEN filterOut(particles, t) ELSE particles
    /\ removed' = IF mounted THEN Left(removed, Range(particles) \cap {t}, "timer")
                             ELSE removed
    /\ lastOp' = "Expire"
    /\ UNCHANGED <<appVars, mounted, active, perTick, maxParticles, timeoutsRef,
                   interval, nextId>>

\* A parent re-renders a mounted component with other values of the effect's
\* dependencies rateMs, perTick, maxParticles (c gives the new perTick and
\* maxParticles; c equal to the current pair is a change of rateMs alone).
\* While active: the cleanup (clearInterval; clearAllTimeouts) and then the
\* effect again, with spawn() and a new interval; the particles state is kept.
\* While not active: the inactive branch runs again.
SetProps(c) ==
    /\ mounted
    /\ perTick' = c[1]
    /\ maxParticles' = c[2]
    /\ IF active
          THEN /\ spawnWith(particles, <<>>, cancelled(pending, timeoutsRef), c[1], c[2])
               /\ interval' = TRUE
          ELSE effectInactive(particles, timeoutsRef, pending)
    /\ lastOp' = "SetProps"
    /\ UNCHANGED <<appVars, mounted, active>>

----
\* App.

\* clamp(1 + noClicks * 0.12, 1, 2.2) at noClicks = n
yesScaleAt(n) == clamp(100 + n * ScaleStep, 100, 220)

\* clamp(1 - noClicks * 0.12, 0.25, 1) at noClicks = n
noScaleAt(n) == clamp(100 - n * ScaleStep, 25, 100)

\* const yesScale = useMemo(..., [noClicks])
yesScale == yesScaleAt(noClicks)

\* const noScale = useMemo(..., [noClicks])
noScale == noScaleAt(noClicks)

\* noDisabled comparing with the floor itself, strictly: noScale < 0.25
noDisabledBelowFloor == noScale < 25

\* disabled={noScale <= 0.26}
noDisabled == noScale <= DisableAt

\* The particle loop runs: the emoji field is mounted and active, and its
\* interval is registered.
loopActive == mounted /\ active /\ interval

\* The controls the App renders: the Yes and No buttons in the "main" block,
\* nothing but the emoji field in the "yesBlock".
renderedControls == IF choice = "yes" THEN {} ELSE {"Yes", "No"}

\* onNo without its early return
onNoAlways ==
    /\ noClicks < MaxClicks
    /\ noClicks' = noClicks + 1
    /\ lastOp' = "onNo"
    /\ UNCHANGED <<choice, loopVars>>

\* function onNo() { if (choice === "yes") return; setNoClicks((c) => c + 1); }
onNo ==
    /\ IF choice = "yes"
          THEN noClicks' = noClicks
          ELSE /\ noClicks < MaxClicks
               /\ noClicks' = noClicks + 1
    /\ lastOp' = "onNo"
    /\ UNCHANGED <<choice, loopVars>>

\* onYes running the effect again on every call: cleanup, then spawn and a
\* new interval
onYesRestart ==
    /\ choice' = "yes"
    /\ noClicks' = noClicks
    /\ mounted' = TRUE
    /\ active' = TRUE
    /\ perTick' = DefaultPerTick
    /\ maxParticles' = DefaultMaxParticles
    /\ effectActive(particles, <<>>, cancelled(pending, timeoutsRef))
    /\ lastOp' = "onYes"

\* onYes as a toggle: a call in the "yes" state goes back to "none" and
\* unmounts the emoji field
onYesToggle ==
    /\ lastOp' = "onYes"
    /\ noClicks' = noClicks
    /\ IF choice = "yes"
          THEN /\ choice' = "none"
               /\ mounted' = FALSE
               /\ active' = FALSE
               /\ interval' = FALSE
               /\ pending' = cancelled(pending, timeoutsRef)
               /\ timeoutsRef' = <<>>
               /\ particles' = <<>>
               /\ removed' = Left(removed, Range(particles), "cleared")
               /\ UNCHANGED <<perTick, maxParticles, nextId>>
          ELSE /\ choice' = "yes"
               /\ mounted' = TRUE
               /\ active' = TRUE
               /\ perTick' = DefaultPerTick
               /\ maxParticles' = DefaultMaxParticles
               /\ effectActive(<<>>, <<>>, pending)

\* function onYes() { setChoice("yes"); }  When the choice changes, the App
\* renders the yesBlock, which mounts
\* <EmojiFlowEverywhere active={choice === "yes"} rateMs={140} perTick={2} maxParticles={70} />.
\* Setting the state to the value it has renders nothing.
onYes ==
    /\ choice' = "yes"
    /\ noClicks' = noClicks
    /\ IF choice = "yes"
          THEN UNCHANGED loopVars
          ELSE /\ ~mounted
               /\ mounted' = TRUE
               /\ active' = TRUE
               /\ perTick' = DefaultPerTick
               /\ maxParticles' = DefaultMaxParticles
               /\ effectActive(<<>>, <<>>, pending)
    /\ lastOp' = "onYes"

\* A click on the Yes button: <motion.button onClick={onYes}> of the main block
ClickYes ==
    /\ "Yes" \in renderedControls
    /\ onYes

\* A click on the No button: <motion.button onClick={onNo} disabled={noScale <= 0.26}>
\* of the main block; a disabled button receives no click.
ClickNo ==
    /\ "No" \in renderedControls
    /\ ~noDisabled
    /\ onNo

----
\* Specifications.

NoRemovals == [i \in 1..MaxIds |-> <<>>]

\* The App after its first render.
Init ==
    /\ choice = "none"
    /\ noClicks = 0
    /\ mounted = FALSE
    /\ active = FALSE
    /\ perTick = DefaultPerTick
    /\ maxParticles = DefaultMaxParticles
    /\ particles = <<>>
    /\ timeoutsRef = <<>>
    /\ pending = {}
    /\ interval = FALSE
    /\ nextId = 0
    /\ removed = NoRemovals
    /\ lastOp = "init"

\* The App: its two handlers may be called in any order, the interval ticks and
\* the timeouts fire.
Next ==
    \/ onNo
    \/ onYes
    \/ Tick
    \/ \E t \in 1..MaxIds : Expire(t)

Spec == Init /\ [][Next]_vars

\* The props a parent of EmojiFlowEverywhere may pass: small values, and the
\* App's own.
Configs ==
    ((0..MaxPerTick) \X (0..MaxCap)) \cup {<<DefaultPerTick, DefaultMaxParticles>>}

\* EmojiFlowEverywhere (an exported component) under a parent that mounts it,
\* switches its `active` prop and unmounts it, with fixed perTick and
\* maxParticles.
InitLoop ==
    /\ choice = "none"
    /\ noClicks = 0
    /\ mounted = FALSE
    /\ active = FALSE
    /\ \E c \in Configs : perTick = c[1] /\ maxParticles = c[2]
    /\ particles = <<>>
    /\ timeoutsRef = <<>>
    /\ pending = {}
    /\ interval = FALSE
    /\ nextId = 0
    /\ removed = NoRemovals
    /\ lastOp = "init"

NextLoop ==
    \/ \E a \in BOOLEAN : Mount(a)
    \/ Activate
    \/ Deactivate
    \/ Unmount
    \/ Tick
    \/ \E t \in 1..MaxIds : Expire(t)

SpecLoop == InitLoop /\ [][NextLoop]_vars

\* A registered timeout fires unless it is cleared first.
TimersFire == \A t \in 1..MaxIds : WF_vars(Expire(t))

SpecLoopFair == SpecLoop /\ TimersFire

\* The App driven through its rendered controls only.
NextUI ==
    \/ ClickYes
    \/ ClickNo
    \/ Tick
    \/ \E t \in 1..MaxIds : Expire(t)

SpecUI == Init /\ [][NextUI]_vars

\* EmojiFlowEverywhere under a parent that also changes rateMs, perTick and
\* maxParticles between renders.
NextLoopProps ==
    \/ NextLoop
    \/ \E c \in Configs : SetProps(c)

SpecLoopProps == InitLoop /\ [][NextLoopProps]_vars

----
\* Claims.

Ids == 1..MaxIds

InList(i) == i \in Range(particles)

\* C1: in every reachable state of EmojiFlowEverywhere the number of particles
\* in the list is at most maxParticles, for every maxParticles >= 0 and
\* perTick >= 0, perTick > maxParticles included.
C1_CountWithinMax == Len(particles) <= maxParticles

\* C1 witness: a tick with perTick > maxParticles > 0 filled the list to the
\* cap and evicted a particle whose timeout is still registered.
C1_Witness ==
    /\ lastOp = "Tick"
    /\ perTick > maxParticles
    /\ maxParticles > 0
    /\ Len(particles) = maxParticles
    /\ \E i \in pending : removed[i] = <<"evicted">>

\* C2: every particle a spawn creates eventually leaves the list, and leaves
\* it exactly once, by its timeout, by eviction or by deactivation.
C2_RemovedExactlyOnce ==
    /\ [](\A i \in Ids : /\ Len(removed[i]) <= 1
                         /\ InList(i) => removed[i] = <<>>
                         /\ i > nextId => ~InList(i) /\ removed[i] = <<>>)
    /\ \A i \in Ids : (i <= nextId) ~> (~InList(i) /\ Len(removed[i]) = 1)

\* C2 witness: three particles have left the list, one by each path.
C2_Witness ==
    /\ \E i \in Ids : removed[i] = <<"timer">>
    /\ \E i \in Ids : removed[i] = <<"evicted">>
    /\ \E i \in Ids : removed[i] = <<"cleared">>

\* C3: whenever the loop is not active (after a deactivation or an unmount,
\* also one that follows the activation at once, and until the next
\* activation) there is no particle in the list, no registered removal
\* timeout, no tracked handle and no spawn interval.
C3_InactiveIsEmpty ==
    ~active => particles = <<>> /\ pending = {} /\ timeoutsRef = <<>> /\ ~interval

\* C3 witness: a deactivation cleared a particle in flight.
C3_Witness ==
    /\ lastOp = "Deactivate"
    /\ \E i \in Ids : removed[i] = <<"cleared">>

\* C4: once choice = "yes" a call of onNo leaves noClicks unchanged; while
\* choice = "none" a call of onNo adds exactly 1 to noClicks; either way it
\* leaves choice unchanged.
C4_DeclineGuarded ==
    [][lastOp' = "onNo" =>
          /\ choice' = choice
          /\ noClicks' = IF choice = "yes" THEN noClicks ELSE noClicks + 1]_vars

\* C4 witness: onNo was called after the choice became "yes", with declines
\* counted before it.
C4_Witness == lastOp = "onNo" /\ choice = "yes" /\ noClicks > 0

\* C5: for every noClicks n, yesScale lies in [1, 2.2] and is no smaller than
\* at any smaller n, noScale lies in [0.25, 1] and is no larger than at any
\* smaller n; n = 0 gives 1 and 1, n = 6 gives 1.72 and 0.28.
C5_ScalesBoundedMonotone ==
    /\ 100 <= yesScale /\ yesScale <= 220
    /\ 25 <= noScale /\ noScale <= 100
    /\ \A m \in 0..noClicks : yesScaleAt(m) <= yesScale /\ noScaleAt(m) >= noScale
    /\ noClicks = 0 => yesScale = 100 /\ noScale = 100
    /\ noClicks = 6 => yesScale = 172 /\ noScale = 28

\* C5 witness: enough declines that both clamps hold the scales at their limits.
C5_Witness == lastOp = "onNo" /\ noClicks = 11 /\ yesScale = 220 /\ noScale = 25

\* C6: the No button is disabled exactly when noClicks >= 7: enabled from 0
\* through 6, disabled from 7 on.
C6_DisabledFromSeven == noDisabled <=> noClicks >= 7

\* C6 witness: the seventh decline disabled the button.
C6_Witness == lastOp = "onNo" /\ noClicks = 7 /\ noDisabled /\ noScale = 25

\* C7: a call of onYes sets choice = "yes" from any state and leaves noClicks
\* unchanged; a call in the "yes" state changes nothing of the particle loop
\* (no restart, no second interval, no extra batch); and in every reachable
\* state the loop is active if and only if choice = "yes".
C7_AffirmIdempotent ==
    /\ [](loopActive <=> choice = "yes")
    /\ [][lastOp' = "onYes" =>
             /\ choice' = "yes"
             /\ noClicks' = noClicks
             /\ choice = "yes" => UNCHANGED loopVars]_vars

\* C7 witness: onYes was called again after the loop had ticked, with declines
\* counted before the first call.
C7_Witness ==
    /\ lastOp = "onYes"
    /\ choice = "yes"
    /\ nextId > perTick
    /\ noClicks > 0
    /\ loopActive

\* C8 as claimed: in the "yes" state a reset control is rendered.
C8_ResetAvailable == choice = "yes" => "Restart" \in renderedControls

\* C8 as amended: no reset exists.  In the "yes" state the App renders no
\* control, and once choice = "yes" it stays "yes", noClicks keeps its value
\* and the loop stays active; noClicks never goes down.
C8_NoReset ==
    /\ [](choice = "yes" => renderedControls = {})
    /\ [][/\ noClicks' >= noClicks
          /\ choice = "yes" =>
                choice' = "yes" /\ noClicks' = noClicks /\ loopActive']_vars

\* C8 witness: the "yes" state after declines, a tick and a fired timeout.
C8_Witness ==
    /\ choice = "yes"
    /\ noClicks > 0
    /\ lastOp = "Expire"
    /\ nextId > perTick
    /\ loopActive

spawnOps == {"Mount", "Activate", "Tick"}

\* C9: particles are created only in batches of exactly perTick, only by an
\* activation or a tick of an active loop (none while inactive); every
\* activation creates one batch at once and registers the interval; every
\* tick creates one further batch; the newest min(perTick, maxParticles)
\* particles of a batch are in the list.  With perTick = 2 and
\* maxParticles = 70 the list holds between 2 and 70 particles after a batch.
C9_BatchPerTick ==
    [][LET fresh == (nextId + 1)..nextId'
       IN  /\ nextId' \in {nextId, nextId + perTick}
           /\ nextId' # nextId =>
                 /\ active' /\ interval'
                 /\ lastOp' \in spawnOps
                 /\ \A i \in fresh : i > nextId' - maxParticles => i \in Range(particles')
           /\ ~active /\ active' => nextId' = nextId + perTick /\ interval'
           /\ lastOp' = "Tick" => active /\ interval /\ nextId' = nextId + perTick
           /\ nextId' # nextId /\ perTick = 2 /\ maxParticles = 70 =>
                 2 <= Len(particles') /\ Len(particles') <= 70]_vars

\* C9 witness: the first tick after an activation with perTick = 2 and
\* maxParticles = 70.
C9_Witness ==
    /\ lastOp = "Tick"
    /\ perTick = 2 /\ maxParticles = 70
    /\ nextId = 4
    /\ Len(particles) = 4

\* C10: after a batch is appended the list is the newest
\* min(length, maxParticles) entries of (old list, then batch), in that
\* order: the oldest are dropped when the length exceeds maxParticles, and
\* nothing is dropped otherwise.
C10_FifoEviction ==
    [][lastOp' \in spawnOps /\ active' =>
          LET next == particles \o [i \in 1..(nextId' - nextId) |-> nextId + i]
              n    == Len(next)
              k    == IF n > maxParticles THEN maxParticles ELSE n
          IN  /\ Len(particles') = k
              /\ \A j \in 1..k : particles'[j] = next[n - k + j]]_vars

\* C10 witness: with perTick = 1 and maxParticles = 2 a tick dropped the oldest
\* particle and kept the two newest in order.
C10_Witness ==
    /\ lastOp = "Tick"
    /\ perTick = 1 /\ maxParticles = 2
    /\ nextId >= 3
    /\ particles = <<nextId - 1, nextId>>
    /\ removed[nextId - 2] = <<"evicted">>

\* C11 as claimed: every particle in the list was created by an earlier spawn
\* and has a registered removal timeout, also after changes of rateMs,
\* perTick or maxParticles while active.
C11_ListedHasTimer == \A i \in Range(particles) : i <= nextId /\ i \in pending

\* C12: a removal timeout fires only while the loop is active, only for a
\* particle already spawned, and only if it was registered since the loop was
\* last activated (its handle is in timeoutsRef); a deactivation leaves no
\* timeout registered, so an activation starts with none and registers only
\* those of its own batch.
C12_NoStaleRemoval ==
    /\ [](pending \subseteq Range(timeoutsRef) /\ (~active => pending = {}))
    /\ [][LET fired == pending \ pending'
          IN  /\ fired # {} =>
                    /\ lastOp' = "Expire" => active /\ active'
                    /\ fired \subseteq 1..nextId
                    /\ fired \subseteq Range(timeoutsRef)
              /\ active /\ ~active' => pending' = {}
              /\ ~active /\ active' =>
                    pending = {} /\ pending' = (nextId + 1)..nextId']_vars

\* C12 witness: a timeout fired in an activation that followed a deactivation
\* which had cleared an older particle in flight.
C12_Witness ==
    /\ lastOp = "Expire"
    /\ active
    /\ \E i, j \in Ids : i < j /\ removed[i] = <<"cleared">> /\ removed[j] = <<"timer">>

\* C13: the deactivation (clearAllTimeouts(), then setParticles([])) applied
\* to a loop that is already inactive changes nothing: run again after a
\* deactivation (the inactive effect re-runs on a prop change) it leaves the
\* state the first run produced, and run with no timeout pending and the list
\* empty (also at a mount with active = false) it leaves the list empty, no
\* handle tracked and no timeout registered.
C13_DeactivateIdempotent ==
    [][/\ lastOp' = "SetProps" /\ ~active =>
             /\ ~active'
             /\ UNCHANGED <<particles, timeoutsRef, pending, interval, nextId, removed>>
       /\ lastOp' = "Mount" /\ ~active' =>
             /\ particles' = <<>> /\ timeoutsRef' = <<>> /\ pending' = {} /\ ~interval'
             /\ UNCHANGED <<particles, timeoutsRef, pending, interval, nextId, removed>>]_vars

\* C13 witness: the inactive branch ran again, on an empty list with no
\* timeout pending, after a deactivation that had cleared a particle.
C13_Witness ==
    /\ lastOp = "SetProps"
    /\ mounted /\ ~active
    /\ particles = <<>> /\ timeoutsRef = <<>> /\ pending = {}
    /\ \E i \in Ids : removed[i] = <<"cleared">>

\* C14: in every state reachable through clicks on the rendered controls
\* noClicks is at most 7, and so yesScale is at most 1.84.
C14_AtMostSevenDeclines == noClicks <= 7 /\ yesScale <= 184

\* C14 witness: the seventh click on No, which disables the button, with
\* yesScale at 1.84.
C14_Witness ==
    /\ lastOp = "onNo"
    /\ noClicks = 7
    /\ yesScale = 184
    /\ noDisabled

\* C15 as claimed: timeoutsRef holds only handles of timeouts that are still
\* registered, and none of a particle that has left the list.
C15_OnlyPendingTracked ==
    \A h \in Range(timeoutsRef) : h \in pending /\ removed[h] = <<>>

====
